---- MODULE Spec2Model ----
(***************************************************************************)
(* State-machine model of the OCPP WebSocket proxy: one client session of  *)
(* OcppProxy (proxy.js) with its OcppRouter (ocpp-router.js) and its two   *)
(* UpstreamConnection links PRI and SEC (upstream.js).  Every action is    *)
(* one event handler of the Node.js event loop, run to completion.         *)
(***************************************************************************)
EXTENDS Integers, Sequences, FiniteSets, TLC

(* ----------------------------- configuration --------------------------- *)

\* index.js builds config.upstreams = [PRI, SEC]: position 1 is the primary.
NumUpstreams == 2
Links == 1..NumUpstreams
Primary == 1

upstreamName(u) == IF u = Primary THEN "PRI" ELSE "SEC"

\* UpstreamConnection constructor: this.maxReconnectAttempts = 10
maxReconnectAttempts == 10

(* ------------------------------- bounds -------------------------------- *)

\* Frames the client sends during the session.
MaxClientFrames == 1
\* Frames the upstream servers send during the session (all links together).
MaxUpstreamFrames == 2

\* Client sockets the server accepts in the registry specification.
MaxConnections == 2
\* Frames sent on all sockets together in the registry specification.
MaxRegistryFrames == 1
\* Socket closes of links that may still reconnect, in the registry specification.
MaxRegistryCloses == 2
MaxBufferedFrames == 2

\* Message ids in use.
Ids == {"a"}
NoServer == "none"

(* ------------------------------- frames -------------------------------- *)

\* A raw text frame.  text = "array" is a JSON array of length >= 2 whose
\* first two elements are (type, id); any other text does not parse.
ArrayFrame(t, i) == [text |-> "array", type |-> t, id |-> i]
OcppFrames == {ArrayFrame(t, i) : t \in {2, 3, 4}, i \in Ids}
ClientFrames == OcppFrames
UpstreamFrames == OcppFrames

\* Frames that are not OCPP messages: text that is not JSON, a JSON value
\* that is not an array, an array with fewer than two elements, and arrays
\* [5, id, ...] whose message type is none of 2, 3, 4.
NotJsonFrame == [text |-> "notJson"]
NotArrayFrame == [text |-> "object"]
ShortArrayFrame == [text |-> "shortArray"]
OtherTypeFrames == {ArrayFrame(5, i) : i \in Ids}
AnyFrames ==
  OcppFrames \cup OtherTypeFrames \cup {NotJsonFrame, NotArrayFrame, ShortArrayFrame}

NoMessage == [null |-> TRUE]

\* OcppRouter.parseMessage
parseMessage(data) ==
  IF data.text = "array"
    THEN [null |-> FALSE, type |-> data.type, messageId |-> data.id]
    ELSE NoMessage

IsCallFrame(data) == ~parseMessage(data).null /\ parseMessage(data).type = 2
IsReplyFrame(data) == ~parseMessage(data).null /\ parseMessage(data).type \in {3, 4}
FrameId(data) == parseMessage(data).messageId

Range(s) == {s[k] : k \in 1..Len(s)}

(* ------------------------------- state --------------------------------- *)

VARIABLES
  up,                \* link -> UpstreamConnection fields and its socket
  clientCallIds,     \* OcppRouter.clientCallIds
  messageIdToServer, \* OcppRouter.messageIdToServer (NoServer = no entry)
  messageBuffer,     \* connectionInfo.messageBuffer
  inMap,             \* clientConnections.has(clientWs)
  readyState,        \* clientWs.readyState
  ev,                \* the event handled by the last step
  out,               \* what the last step wrote, notified and closed
  clientFrames,      \* number of frames the client has sent
  upstreamFrames,    \* number of frames the upstreams have sent
  sentCalls,         \* ids of the CALL frames the client has sent
  clientAnswered,    \* ids of upstream CALLs the client has sent a reply to
  calledFromClient,  \* frames notifier.callFromClient has been called with
  starved,           \* client CALL frames routed while the primary was not connected
  buffered,          \* frames that have been put in messageBuffer
  overwritten,       \* link -> ids of its CALLs whose router entry another link's CALL replaced
  repliesToClient,   \* id -> number of replies to that client CALL written to the client
  upReplied,         \* link -> ids the upstream has sent a reply for
  dupReply,          \* some upstream sent two replies with one id
  sentFromBuffer,    \* link -> buffered frames written to it since the buffer was started
  sess,              \* client socket -> its session (registry specification)
  regCount           \* events counted against the registry specification's bounds

progVars == <<up, clientCallIds, messageIdToServer, messageBuffer, inMap, readyState>>
histVars == <<clientFrames, upstreamFrames, sentCalls, clientAnswered, calledFromClient,
              starved, buffered, overwritten,
              repliesToClient, upReplied, dupReply, sentFromBuffer>>
regVars == <<sess, regCount>>
vars == <<progVars, ev, out, histVars, regVars>>

\* UpstreamConnection constructor followed by connect(): the socket is
\* being opened.
NewLink ==
  [isConnected |-> FALSE, wasEverConnected |-> FALSE, closed |-> FALSE,
   reconnectAttempts |-> 0, reconnectTimer |-> FALSE, timers |-> 0, ws |-> "set",
   sock |-> "connecting"]

NoOut ==
  [toClient |-> <<>>, toUp |-> [u \in Links |-> <<>>], notes |-> <<>>,
   threw |-> FALSE, clientClose |-> "none", delay |-> 0, trace |-> <<>>]

\* The program state a handler works on, with the step's outputs empty.
\* The single session of Spec is the one of the client cp1.
Cur ==
  [clientId |-> "cp1", up |-> up, clientCallIds |-> clientCallIds,
   messageIdToServer |-> messageIdToServer, messageBuffer |-> messageBuffer,
   inMap |-> inMap, readyState |-> readyState, out |-> NoOut]

\* A call of the notifier or of a callback; out.trace has the calls, the
\* router registrations and the socket writes of the step in their order.
Note(P, n) ==
  [P EXCEPT !.out.notes = Append(@, n),
            !.out.trace = Append(@, [op |-> n.hook, arg |-> n.arg])]

(* --------------------------- UpstreamConnection ------------------------ *)

\* A send without the isConnected test and without the try/catch.
sendResult_Unguarded(P, u, data, wsSendThrows) ==
  [state |-> [P EXCEPT !.out.toUp[u] = IF wsSendThrows THEN @ ELSE Append(@, data),
                       !.out.threw = wsSendThrows],
   returned |-> TRUE]

\* UpstreamConnection.send with its return value; wsSendThrows says whether
\* this.ws.send(data) throws.
sendResult(P, u, data, wsSendThrows) ==
  IF ~P.up[u].isConnected \/ P.up[u].ws = "null"
    THEN [state |-> P, returned |-> FALSE]
    ELSE IF wsSendThrows
      THEN [state |-> P, returned |-> FALSE]
      ELSE [state |-> [P EXCEPT !.out.toUp[u] = Append(@, data),
                               !.out.trace = Append(@, [op |-> "send", link |-> u,
                                                        frame |-> data])],
            returned |-> TRUE]

\* UpstreamConnection.send as the proxy calls it: the return value is not
\* used, and the write of a frame to an open socket goes through.
send(P, u, data) == sendResult(P, u, data, FALSE).state

\* ws.close() on the link's socket: an open socket starts the closing
\* handshake, a connecting one aborts; its close event is still to come.
wsClose(s) ==
  CASE s = "open" -> "closing"
    [] s = "connecting" -> "aborted"
    [] OTHER -> s

\* A close that stops the timer and the socket but does not set the closed flag.
close_NoFlag(P, u) ==
  LET L == P.up[u] IN
  [P EXCEPT !.up[u] =
     [L EXCEPT !.reconnectTimer = FALSE,
               !.timers = IF L.reconnectTimer THEN @ - 1 ELSE @,
               !.sock = IF L.ws = "null" THEN L.sock ELSE wsClose(L.sock),
               !.ws = "null",
               !.isConnected = FALSE]]

\* A close that leaves a pending reconnect timer running.
close_KeepTimer(P, u) ==
  LET L == P.up[u] IN
  [P EXCEPT !.up[u] =
     [L EXCEPT !.closed = TRUE,
               !.sock = IF L.ws = "null" THEN L.sock ELSE wsClose(L.sock),
               !.ws = "null",
               !.isConnected = FALSE]]

\* UpstreamConnection.close
close(P, u) ==
  LET L == P.up[u] IN
  [P EXCEPT !.up[u] =
     [L EXCEPT !.closed = TRUE,
               !.reconnectTimer = FALSE,
               !.timers = IF L.reconnectTimer THEN @ - 1 ELSE @,
               !.sock = IF L.ws = "null" THEN L.sock ELSE wsClose(L.sock),
               !.ws = "null",
               !.isConnected = FALSE]]

\* UpstreamConnection.connect (the socket constructor succeeds)
connect(P, u) ==
  IF P.up[u].ws # "null" /\ P.up[u].isConnected
    THEN P
    ELSE [P EXCEPT !.up[u].ws = "set", !.up[u].sock = "connecting"]

\* A back-off that doubles without the cap.
reconnectDelay_Uncapped(n) == 5000 * (2 ^ (n - 1))

\* Math.min(5000 * Math.pow(2, n - 1), 60000)
reconnectDelay(n) ==
  LET d == 5000 * (2 ^ (n - 1)) IN IF d < 60000 THEN d ELSE 60000

(* -------------------------------- OcppRouter --------------------------- *)

\* OcppRouter.registerClientCall
registerClientCall(P, messageId) ==
  [P EXCEPT !.clientCallIds = @ \cup {messageId},
            !.out.trace = Append(@, [op |-> "registerClientCall", id |-> messageId])]

\* A router that does not filter: every reply is relayed.
shouldRelayResponseToClient_RelayAll(P, messageId, serverName, primaryServerName) ==
  TRUE

\* A router that relays the reply of any server to a CALL the primary
\* server cannot answer because it is not connected.
shouldRelayResponseToClient_WhenPrimaryDown(P, messageId, serverName, primaryServerName) ==
  IF messageId \notin P.clientCallIds THEN TRUE
  ELSE IF serverName = primaryServerName THEN TRUE
  ELSE ~P.up[Primary].isConnected

\* OcppRouter.shouldRelayResponseToClient
shouldRelayResponseToClient(P, messageId, serverName, primaryServerName) ==
  IF messageId \notin P.clientCallIds THEN TRUE
  ELSE IF serverName = primaryServerName THEN TRUE
  ELSE FALSE

\* A router that keeps the first server recorded for a message id.
registerServerCall_KeepFirst(P, messageId, serverName) ==
  IF P.messageIdToServer[messageId] # NoServer THEN P
  ELSE [P EXCEPT !.messageIdToServer[messageId] = serverName]

\* OcppRouter.registerServerCall
registerServerCall(P, messageId, serverName) ==
  [P EXCEPT !.messageIdToServer[messageId] = serverName]

\* OcppRouter.getServerForResponse: the name found (or NoServer) and the
\* router with the entry removed.
getServerForResponse(P, messageId) ==
  LET serverName == P.messageIdToServer[messageId] IN
  [serverName |-> serverName,
   P |-> IF serverName # NoServer
           THEN [P EXCEPT !.messageIdToServer[messageId] = NoServer]
           ELSE P]

\* OcppRouter.routeClientMessage
routeClientMessage(P, message) ==
  IF message.null THEN [P |-> P, sendToAll |-> FALSE, sendToServer |-> NoServer]
  ELSE IF message.type = 2 THEN [P |-> P, sendToAll |-> TRUE, sendToServer |-> NoServer]
  ELSE IF message.type \in {3, 4}
    THEN LET r == getServerForResponse(P, message.messageId) IN
         [P |-> r.P, sendToAll |-> FALSE, sendToServer |-> r.serverName]
  ELSE [P |-> P, sendToAll |-> FALSE, sendToServer |-> NoServer]

\* A router that records the CALLs of the primary only.
handleServerMessage_PrimaryOnly(P, message, serverName) ==
  IF message.null THEN P
  ELSE IF message.type = 2 /\ serverName = upstreamName(Primary)
    THEN registerServerCall(P, message.messageId, serverName)
  ELSE P

\* OcppRouter.handleServerMessage
handleServerMessage(P, message, serverName) ==
  IF message.null THEN P
  ELSE IF message.type = 2 THEN registerServerCall(P, message.messageId, serverName)
  ELSE P

\* OcppRouter.clear
clear(P) ==
  [P EXCEPT !.messageIdToServer = [i \in Ids |-> NoServer],
            !.clientCallIds = {}]

(* --------------------------------- OcppProxy --------------------------- *)

\* OcppProxy.start: config.notify is an object, so this.notifier is set.
hasNotifier == TRUE

\* upstreams.find((u) => u.name === name): the first link with that name, 0 if none
findUpstream(name) ==
  IF \E u \in Links : upstreamName(u) = name
    THEN CHOOSE u \in Links :
           upstreamName(u) = name /\ \A v \in Links : upstreamName(v) = name => u <= v
    ELSE 0

\* A fan-out that stops after the first connected upstream.
sendToAllFrom_FirstOnly(P, data, u) ==
  IF \E v \in u..NumUpstreams : P.up[v].isConnected
    THEN send(P, CHOOSE v \in u..NumUpstreams :
                   P.up[v].isConnected /\ \A w \in u..NumUpstreams : P.up[w].isConnected => v <= w,
              data)
    ELSE P

\* upstreams.forEach((upstream) => { if (upstream.isConnected) upstream.send(data) })
\* for the links u, u+1, ... in configuration order
RECURSIVE sendToAllFrom(_, _, _)
sendToAllFrom(P, data, u) ==
  IF u > NumUpstreams THEN P
  ELSE sendToAllFrom(IF P.up[u].isConnected THEN send(P, u, data) ELSE P, data, u + 1)

\* A handler that writes a CALL to the links before it registers its id.
handleClientMessage_WriteFirst(P, data) ==
  LET message == parseMessage(data) IN
  IF message.null \/ message.type # 2 THEN P
  ELSE registerClientCall(sendToAllFrom(P, data, 1), message.messageId)

\* OcppProxy.handleClientMessage
handleClientMessage(P, data) ==
  LET message == parseMessage(data) IN
  IF message.null THEN P
  ELSE
    LET routing == routeClientMessage(P, message)
        Q == routing.P
    IN
    IF routing.sendToAll
      THEN LET R == IF message.type = 2
                      THEN registerClientCall(Q, message.messageId)
                      ELSE Q
           IN
           IF message.type = 2 /\ hasNotifier /\ ~R.inMap
             THEN \* connectionInfo is undefined: connectionInfo.clientId throws
                  [R EXCEPT !.out.threw = TRUE]
             ELSE sendToAllFrom(
                    IF message.type = 2 /\ hasNotifier
                      THEN Note(R, [hook |-> "callFromClient", arg |-> data])
                      ELSE R,
                    data, 1)
    ELSE IF routing.sendToServer # NoServer
      THEN LET t == findUpstream(routing.sendToServer) IN
           IF t # 0 /\ Q.up[t].isConnected THEN send(Q, t, data) ELSE Q
    ELSE Q

\* A relay that forgets a client CALL once the primary's reply was relayed.
handleUpstreamMessage_Forget(P, data, serverName) ==
  LET message == parseMessage(data)
      Q == IF ~message.null THEN handleServerMessage(P, message, serverName) ELSE P
      primaryServerName == IF Q.inMap THEN upstreamName(Primary) ELSE "null"
      dropped ==
        /\ ~message.null
        /\ message.type \in {3, 4}
        /\ ~shouldRelayResponseToClient(Q, message.messageId, serverName, primaryServerName)
      F == IF ~message.null /\ message.type \in {3, 4} /\ serverName = primaryServerName
             THEN [Q EXCEPT !.clientCallIds = @ \ {message.messageId}]
             ELSE Q
  IN
  IF dropped THEN Q
  ELSE IF Q.readyState = "OPEN" THEN [F EXCEPT !.out.toClient = Append(@, data)]
  ELSE F

\* OcppProxy.handleUpstreamMessage
handleUpstreamMessage(P, data, serverName) ==
  LET message == parseMessage(data)
      Q == IF ~message.null THEN handleServerMessage(P, message, serverName) ELSE P
      primaryServerName == IF Q.inMap THEN upstreamName(Primary) ELSE "null"
      dropped ==
        /\ ~message.null
        /\ message.type \in {3, 4}
        /\ ~shouldRelayResponseToClient(Q, message.messageId, serverName, primaryServerName)
  IN
  IF dropped THEN Q
  ELSE IF Q.readyState = "OPEN" THEN [Q EXCEPT !.out.toClient = Append(@, data)]
  ELSE Q

\* for (const msg of messages) this.handleClientMessage(...): an exception ends the loop
RECURSIVE routeBuffered(_, _)
routeBuffered(P, messages) ==
  IF messages = <<>> \/ P.out.threw THEN P
  ELSE routeBuffered(handleClientMessage(P, Head(messages)), Tail(messages))

\* for (const msg of connectionInfo.messageBuffer) upstream.send(msg)
RECURSIVE sendRaw(_, _, _)
sendRaw(P, u, messages) ==
  IF messages = <<>> THEN P
  ELSE sendRaw(send(P, u, Head(messages)), u, Tail(messages))

\* A drain that writes the buffer as it is to whichever link connected.
sendBufferToUpstream_RawOnly(P, u) ==
  IF ~P.inMap \/ P.messageBuffer = <<>> THEN P
  ELSE sendRaw(P, u, P.messageBuffer)

\* OcppProxy.sendBufferToUpstream
sendBufferToUpstream(P, u) ==
  IF ~P.inMap \/ P.messageBuffer = <<>> THEN P
  ELSE IF u = Primary THEN routeBuffered(P, P.messageBuffer)
  ELSE sendRaw(P, u, P.messageBuffer)

\* OcppProxy.flushMessageBufferIfAllConnected
flushMessageBufferIfAllConnected(P) ==
  IF ~P.inMap \/ P.messageBuffer = <<>> THEN P
  ELSE
    LET allResolved ==
          \A u \in Links :
            P.up[u].isConnected \/ P.up[u].reconnectAttempts >= maxReconnectAttempts
    IN IF allResolved THEN [P EXCEPT !.messageBuffer = <<>>] ELSE P

\* upstreams.forEach((upstream) => upstream.close()) for the links u, u+1, ...
RECURSIVE closeAllFrom(_, _)
closeAllFrom(P, u) ==
  IF u > NumUpstreams THEN P ELSE closeAllFrom(close(P, u), u + 1)

\* OcppProxy.cleanupClientConnection
cleanupClientConnection(P) ==
  IF ~P.inMap THEN P
  ELSE [clear(closeAllFrom(P, 1)) EXCEPT !.inMap = FALSE]

\* clientWs.close(code, reason) by the proxy
clientWsClose(P, reason) ==
  [P EXCEPT !.readyState = IF @ = "OPEN" THEN "CLOSING" ELSE @,
            !.out.clientClose = reason]

\* A survival check that waits until every link has used up its attempts.
checkUpstreamsStatus_AfterGiveUps(P) ==
  IF ~P.inMap THEN P
  ELSE
    LET someStillConnecting ==
          \E u \in Links :
            /\ ~P.up[u].isConnected
            /\ ~P.up[u].wasEverConnected
            /\ P.up[u].reconnectAttempts < maxReconnectAttempts
        allGaveUp ==
          \A u \in Links :
            ~P.up[u].isConnected /\ P.up[u].reconnectAttempts >= maxReconnectAttempts
    IN
    IF someStillConnecting THEN P
    ELSE IF allGaveUp
      THEN cleanupClientConnection(clientWsClose(P, "1001 All upstream servers unavailable"))
    ELSE P

\* A survival check that waits for a link that has never been connected,
\* whatever the number of its attempts.
checkUpstreamsStatus_WaitForNeverConnected(P) ==
  IF ~P.inMap THEN P
  ELSE IF \E u \in Links : ~P.up[u].isConnected /\ ~P.up[u].wasEverConnected THEN P
  ELSE IF \A u \in Links : ~P.up[u].isConnected
    THEN cleanupClientConnection(clientWsClose(P, "1001 All upstream servers unavailable"))
  ELSE P

\* OcppProxy.checkUpstreamsStatus
checkUpstreamsStatus(P) ==
  IF ~P.inMap THEN P
  ELSE
    LET someStillConnecting ==
          \E u \in Links :
            /\ ~P.up[u].isConnected
            /\ ~P.up[u].wasEverConnected
            /\ P.up[u].reconnectAttempts < maxReconnectAttempts
        allDisconnected == \A u \in Links : ~P.up[u].isConnected
    IN
    IF someStillConnecting THEN P
    ELSE IF allDisconnected
      THEN cleanupClientConnection(clientWsClose(P, "1001 All upstream servers unavailable"))
    ELSE P

\* A connected callback that checks the buffer for clearing before draining it.
onConnected_FlushFirst(P, u) ==
  LET Q == sendBufferToUpstream(flushMessageBufferIfAllConnected(P), u) IN
  IF hasNotifier /\ ~Q.out.threw
    THEN Note(Q, [hook |-> "connectedToUpstream", arg |-> upstreamName(u)])
    ELSE Q

\* the upstream.onConnected callback set in handleClientConnection
onConnected(P, u) ==
  LET Q == flushMessageBufferIfAllConnected(sendBufferToUpstream(P, u)) IN
  IF hasNotifier /\ ~Q.out.threw
    THEN Note(Q, [hook |-> "connectedToUpstream", arg |-> upstreamName(u)])
    ELSE Q

\* the upstream.onDisconnected callback set in handleClientConnection
onDisconnected(P, u) ==
  LET Q == checkUpstreamsStatus(P) IN
  IF hasNotifier
    THEN Note(Q, [hook |-> "disconnectedFromUpstream", arg |-> upstreamName(u)])
    ELSE Q

\* the upstream.onGaveUp callback set in handleClientConnection
onGaveUp(P, u) ==
  checkUpstreamsStatus(flushMessageBufferIfAllConnected(P))

\* A scheduler that stops retrying at the cap without telling its owner.
scheduleReconnect_Silent(P, u) ==
  IF P.up[u].closed THEN P
  ELSE IF P.up[u].reconnectTimer THEN P
  ELSE IF P.up[u].reconnectAttempts >= maxReconnectAttempts THEN P
  ELSE [P EXCEPT !.up[u].reconnectAttempts = @ + 1,
                 !.up[u].reconnectTimer = TRUE,
                 !.up[u].timers = @ + 1,
                 !.out.delay = reconnectDelay(P.up[u].reconnectAttempts + 1)]

\* A scheduler that sets a new timer although one is pending.
scheduleReconnect_Rearm(P, u) ==
  IF P.up[u].closed THEN P
  ELSE IF P.up[u].reconnectAttempts >= maxReconnectAttempts
    THEN Note(onGaveUp(P, u), [hook |-> "gaveUp", arg |-> upstreamName(u)])
  ELSE [P EXCEPT !.up[u].reconnectAttempts = @ + 1,
                 !.up[u].reconnectTimer = TRUE,
                 !.up[u].timers = @ + 1,
                 !.out.delay = reconnectDelay(P.up[u].reconnectAttempts + 1)]

\* UpstreamConnection.scheduleReconnect
scheduleReconnect(P, u) ==
  IF P.up[u].closed THEN P
  ELSE IF P.up[u].reconnectTimer THEN P
  ELSE IF P.up[u].reconnectAttempts >= maxReconnectAttempts
    THEN Note(onGaveUp(P, u), [hook |-> "gaveUp", arg |-> upstreamName(u)])
  ELSE [P EXCEPT !.up[u].reconnectAttempts = @ + 1,
                 !.up[u].reconnectTimer = TRUE,
                 !.up[u].timers = @ + 1,
                 !.out.delay = reconnectDelay(P.up[u].reconnectAttempts + 1)]

\* An open handler that keeps the count of reconnection attempts.
onOpen_KeepAttempts(P, u) ==
  onConnected(
    [P EXCEPT !.up[u].isConnected = TRUE,
              !.up[u].wasEverConnected = TRUE,
              !.up[u].sock = "open"],
    u)

\* An open handler that does not record that the link has been connected.
onOpen_NoEver(P, u) ==
  onConnected(
    [P EXCEPT !.up[u].isConnected = TRUE,
              !.up[u].reconnectAttempts = 0,
              !.up[u].sock = "open"],
    u)

\* the 'open' handler of the socket created in UpstreamConnection.connect
onOpen(P, u) ==
  onConnected(
    [P EXCEPT !.up[u].isConnected = TRUE,
              !.up[u].wasEverConnected = TRUE,
              !.up[u].reconnectAttempts = 0,
              !.up[u].sock = "open"],
    u)

\* A 'close' handler that tells the owner and schedules no reconnection.
onClose_NoReconnect(P, u) ==
  onDisconnected([P EXCEPT !.up[u].isConnected = FALSE, !.up[u].sock = "none"], u)

\* the 'close' handler of the socket created in UpstreamConnection.connect
onClose(P, u) ==
  LET Q == onDisconnected(
             [P EXCEPT !.up[u].isConnected = FALSE, !.up[u].sock = "none"], u)
  IN IF ~Q.up[u].closed THEN scheduleReconnect(Q, u) ELSE Q

\* the setTimeout callback of scheduleReconnect
onTimer(P, u) ==
  connect([P EXCEPT !.up[u].reconnectTimer = FALSE, !.up[u].timers = @ - 1], u)

\* A 'message' handler that also keeps the frames it routes in the buffer.
onClientMessage_KeepRouted(P, msg) ==
  IF P.inMap /\ ~(\E u \in Links : P.up[u].isConnected)
    THEN [P EXCEPT !.messageBuffer = Append(@, msg)]
    ELSE handleClientMessage([P EXCEPT !.messageBuffer = Append(@, msg)], msg)

\* the clientWs 'message' handler set in handleClientConnection
onClientMessage(P, msg) ==
  IF P.inMap /\ ~(\E u \in Links : P.up[u].isConnected)
    THEN [P EXCEPT !.messageBuffer = Append(@, msg)]
    ELSE handleClientMessage(P, msg)

\* the clientWs 'close' handler set in handleClientConnection
onClientClose(P) ==
  cleanupClientConnection(
    IF hasNotifier THEN Note(P, [hook |-> "disconnectedFromProxy", arg |-> P.clientId]) ELSE P)

(* ---------------------------- session registry ------------------------ *)

\* Client sockets in the order the server accepts them, and the client ids
\* their request paths name.
Sockets == 1..MaxConnections
ClientIds == {"cp1", "cp2"}

ReplacedReason == "1001 Replaced by a new connection"

\* A link that was never constructed.
NoLink ==
  [isConnected |-> FALSE, wasEverConnected |-> FALSE, closed |-> FALSE,
   reconnectAttempts |-> 0, reconnectTimer |-> FALSE, timers |-> 0, ws |-> "null",
   sock |-> "none"]

\* A client socket the server has not accepted yet.
NoSession ==
  [arrived |-> FALSE, clientId |-> "none", up |-> [u \in Links |-> NoLink],
   clientCallIds |-> {}, messageIdToServer |-> [i \in Ids |-> NoServer],
   messageBuffer |-> <<>>, inMap |-> FALSE, readyState |-> "NONE", out |-> NoOut]

\* connectionInfo of a new connection: new OcppRouter, new UpstreamConnection
\* per configured upstream with connect() called, empty messageBuffer.
NewSession(clientId) ==
  LET P == [arrived |-> TRUE, clientId |-> clientId, up |-> [u \in Links |-> NewLink],
            clientCallIds |-> {}, messageIdToServer |-> [i \in Ids |-> NoServer],
            messageBuffer |-> <<>>, inMap |-> TRUE, readyState |-> "OPEN", out |-> NoOut]
  IN IF hasNotifier THEN Note(P, [hook |-> "connectedToProxy", arg |-> clientId]) ELSE P

\* A registry whose stale entry survives: the existing session is not looked up.
handleClientConnection_KeepExisting(S, s, clientId) ==
  [S EXCEPT ![s] = NewSession(clientId)]

\* OcppProxy.handleClientConnection for a valid path naming clientId, on the
\* new client socket s.  clientConnections iterates in insertion order, which
\* is the order of the socket numbers; the loop stops at the first match.
handleClientConnection(S, s, clientId) ==
  LET existing == {e \in Sockets : S[e].inMap /\ S[e].clientId = clientId}
      S1 == IF existing = {} THEN S
            ELSE LET e == CHOOSE x \in existing : \A y \in existing : x <= y IN
                 [S EXCEPT ![e] = clientWsClose(cleanupClientConnection(S[e]),
                                                "1001 Replaced by a new connection")]
  IN [S1 EXCEPT ![s] = NewSession(clientId)]

\* request.url as a sequence of tokens: "/" , a maximal run of the
\* characters [a-zA-Z0-9_-] (the runs in use are the client ids), and the
\* other characters "%" and ".".
Paths ==
  UNION {{<<"/", c>>, <<"/", "/", c>>, <<"/", c, "/">>, <<"/", c, "/", c>>,
          <<"/", c, "%", c>>} : c \in ClientIds}
    \cup {<<"/">>, <<"/", ".", ".">>}

NoMatch == "null"
InvalidPathReason ==
  "1008 Invalid path: must be single-level alphanumeric, underscore, or hyphen"

\* rawPath.replace(/^\/+/, '')
RECURSIVE stripLeadingSlashes(_)
stripLeadingSlashes(path) ==
  IF path # <<>> /\ Head(path) = "/" THEN stripLeadingSlashes(Tail(path)) ELSE path

\* A match that only looks at the first segment of the path.
matchPath_FirstSegment(rawPath) ==
  LET rest == stripLeadingSlashes(rawPath) IN
  IF rest # <<>> /\ rest[1] \in ClientIds THEN rest[1] ELSE NoMatch

\* rawPath.replace(/^\/+/, '').match(/^([a-zA-Z0-9_-]+)$/): match[1], or
\* NoMatch.  The whole remainder has to be one run of id characters.
matchPath(rawPath) ==
  LET rest == stripLeadingSlashes(rawPath) IN
  IF Len(rest) = 1 /\ rest[1] \in ClientIds THEN rest[1] ELSE NoMatch

\* OcppProxy.handleClientConnection on the new client socket s with
\* request.url = rawPath: an invalid path closes the socket with 1008 and
\* returns before anything is created or any handler is set.
handleConnectionRequest(S, s, rawPath) ==
  IF matchPath(rawPath) = NoMatch
    THEN [S EXCEPT ![s] = clientWsClose(S[s], InvalidPathReason)]
    ELSE handleClientConnection(S, s, matchPath(rawPath))

(* ------------------------------ specification ------------------------- *)

NoFrame == [text |-> "none"]

\* The state after handleClientConnection: the session is registered, its
\* router and buffer are empty and connect() was called on every link.
Init ==
  /\ up = [u \in Links |-> NewLink]
  /\ clientCallIds = {}
  /\ messageIdToServer = [i \in Ids |-> NoServer]
  /\ messageBuffer = <<>>
  /\ inMap = TRUE
  /\ readyState = "OPEN"
  /\ ev = [kind |-> "connection", link |-> 0, frame |-> NoFrame]
  /\ out = NoOut
  /\ clientFrames = 0
  /\ upstreamFrames = 0
  /\ sentCalls = {}
  /\ clientAnswered = {}
  /\ repliesToClient = [i \in Ids |-> 0]
  /\ upReplied = [u \in Links |-> {}]
  /\ dupReply = FALSE
  /\ calledFromClient = {}
  /\ overwritten = [u \in Links |-> {}]
  /\ buffered = {}
  /\ starved = {}
  /\ sentFromBuffer = [u \in Links |-> {}]
  /\ sess = <<>>    \* the registry variables are used by SpecRegistry only
  /\ regCount = [frames |-> 0, closes |-> 0]

\* The program state and the outputs after a handler returned R.
Commit(R) ==
  /\ up' = R.up
  /\ clientCallIds' = R.clientCallIds
  /\ messageIdToServer' = R.messageIdToServer
  /\ messageBuffer' = R.messageBuffer
  /\ inMap' = R.inMap
  /\ readyState' = R.readyState
  /\ out' = R.out

\* The frames notifier.callFromClient was called with in a step with outputs o.
CallsNotified(o) == {n.arg : n \in {x \in Range(o.notes) : x.hook = "callFromClient"}}

\* The client sends a frame, one of at most max: the clientWs 'message' event.
ClientMessageUpTo(data, max) ==
  /\ readyState # "CLOSED"
  /\ clientFrames < max
  /\ LET R == onClientMessage(Cur, data) IN
     /\ Commit(R)
     /\ sentFromBuffer' =
          IF messageBuffer = <<>> /\ R.messageBuffer # <<>>
            THEN [u \in Links |-> {}]
            ELSE sentFromBuffer
     /\ calledFromClient' = calledFromClient \cup CallsNotified(R.out)
     /\ buffered' = IF Len(R.messageBuffer) > Len(messageBuffer)
                       THEN buffered \cup {data} ELSE buffered
     /\ starved' = IF /\ IsCallFrame(data) /\ ~up[Primary].isConnected
                      /\ \E u \in Links : R.out.toUp[u] # <<>>
                     THEN starved \cup {data} ELSE starved
  /\ ev' = [kind |-> "clientMessage", link |-> 0, frame |-> data]
  /\ clientFrames' = clientFrames + 1
  /\ sentCalls' = IF IsCallFrame(data) THEN sentCalls \cup {FrameId(data)} ELSE sentCalls
  /\ clientAnswered' =
       IF IsReplyFrame(data) /\ messageIdToServer[FrameId(data)] # NoServer
         THEN clientAnswered \cup {FrameId(data)}
         ELSE clientAnswered
  /\ UNCHANGED <<upstreamFrames, repliesToClient, upReplied, dupReply, overwritten>>
  /\ UNCHANGED regVars

ClientMessage(data) == ClientMessageUpTo(data, MaxClientFrames)

\* The client socket closes: the clientWs 'close' event.
ClientClose ==
  /\ readyState # "CLOSED"
  /\ Commit(onClientClose([Cur EXCEPT !.readyState = "CLOSED"]))
  /\ ev' = [kind |-> "clientClose", link |-> 0, frame |-> NoFrame]
  /\ UNCHANGED histVars
  /\ UNCHANGED regVars

\* The socket of link u opens: its 'open' event.
SocketOpen(u) ==
  /\ up[u].sock = "connecting"
  /\ LET R == onOpen(Cur, u) IN
     /\ Commit(R)
     /\ sentFromBuffer' = [v \in Links |-> sentFromBuffer[v] \cup Range(R.out.toUp[v])]
     /\ calledFromClient' = calledFromClient \cup CallsNotified(R.out)
  /\ ev' = [kind |-> "open", link |-> u, frame |-> NoFrame]
  /\ UNCHANGED <<clientFrames, upstreamFrames, sentCalls, clientAnswered, repliesToClient,
                 upReplied, dupReply, overwritten, buffered, starved>>
  /\ UNCHANGED regVars

\* The socket of link u closes (refused, dropped, closed by the server or
\* after the proxy closed it): its 'close' event.
SocketClose(u) ==
  /\ up[u].sock \in {"connecting", "open", "closing", "aborted"}
  /\ Commit(onClose(Cur, u))
  /\ ev' = [kind |-> "close", link |-> u, frame |-> NoFrame]
  /\ UNCHANGED histVars
  /\ UNCHANGED regVars

\* The upstream server of link u sends a frame: the socket's 'message' event.
UpstreamMessage(u, data) ==
  /\ up[u].sock \in {"open", "closing"}
  /\ upstreamFrames < MaxUpstreamFrames
  /\ LET R == handleUpstreamMessage(Cur, data, upstreamName(u)) IN
     /\ Commit(R)
     /\ repliesToClient' =
          [i \in Ids |->
             repliesToClient[i] +
               Len(SelectSeq(R.out.toClient,
                     LAMBDA f : IsReplyFrame(f) /\ FrameId(f) = i /\ i \in sentCalls))]
  /\ ev' = [kind |-> "upstreamMessage", link |-> u, frame |-> data]
  /\ upstreamFrames' = upstreamFrames + 1
  /\ upReplied' = IF IsReplyFrame(data)
                    THEN [upReplied EXCEPT ![u] = @ \cup {FrameId(data)}]
                    ELSE upReplied
  /\ dupReply' = (dupReply \/ (IsReplyFrame(data) /\ FrameId(data) \in upReplied[u]))
  /\ overwritten' =
       IF IsCallFrame(data)
         THEN [v \in Links |->
                 IF v = u THEN overwritten[v] \ {FrameId(data)}
                 ELSE IF messageIdToServer[FrameId(data)] = upstreamName(v)
                   THEN overwritten[v] \cup {FrameId(data)}
                   ELSE overwritten[v]]
         ELSE overwritten
  /\ UNCHANGED <<clientFrames, sentCalls, clientAnswered, calledFromClient, sentFromBuffer,
                 buffered, starved>>
  /\ UNCHANGED regVars

\* The reconnect timer of link u fires.
ReconnectTimer(u) ==
  /\ up[u].timers > 0
  /\ Commit(onTimer(Cur, u))
  /\ ev' = [kind |-> "timer", link |-> u, frame |-> NoFrame]
  /\ UNCHANGED histVars
  /\ UNCHANGED regVars

Next ==
  \/ \E data \in ClientFrames : ClientMessage(data)
  \/ ClientClose
  \/ \E u \in Links : SocketOpen(u)
  \/ \E u \in Links : SocketClose(u)
  \/ \E u \in Links, data \in UpstreamFrames : UpstreamMessage(u, data)
  \/ \E u \in Links : ReconnectTimer(u)

Spec == Init /\ [][Next]_vars

(* ---------------------- registry specification ------------------------ *)
(* Several client sockets, each with its own session, in one proxy.  The   *)
(* handlers are the ones above, applied to the session of the socket the   *)
(* event belongs to; the single-session variables are not used.            *)

\* The state after OcppProxy.start: clientConnections is empty.
RegInit ==
  /\ sess = [s \in Sockets |-> NoSession]
  /\ regCount = [frames |-> 0, closes |-> 0]
  /\ ev = [kind |-> "start", socket |-> 0, link |-> 0, frame |-> NoFrame]
  /\ up = [u \in Links |-> NoLink]
  /\ clientCallIds = {}
  /\ messageIdToServer = [i \in Ids |-> NoServer]
  /\ messageBuffer = <<>>
  /\ inMap = FALSE
  /\ readyState = "NONE"
  /\ out = NoOut
  /\ clientFrames = 0
  /\ upstreamFrames = 0
  /\ sentCalls = {}
  /\ clientAnswered = {}
  /\ repliesToClient = [i \in Ids |-> 0]
  /\ upReplied = [u \in Links |-> {}]
  /\ dupReply = FALSE
  /\ calledFromClient = {}
  /\ overwritten = [u \in Links |-> {}]
  /\ buffered = {}
  /\ starved = {}
  /\ sentFromBuffer = [u \in Links |-> {}]

\* Every session with the outputs of the previous step forgotten.
Fresh(S) == [t \in Sockets |-> [S[t] EXCEPT !.out = NoOut]]

RegUnused == <<progVars, out, histVars>>

\* The server's 'connection' event: a client socket arrives with request
\* path rawPath.  Sockets are numbered as they get a session; a rejected
\* socket has no handler and no session, and is not numbered.
RegConnection(rawPath) ==
  /\ \E s \in Sockets :
       /\ ~sess[s].arrived
       /\ \A t \in Sockets : t < s => sess[t].arrived
       /\ sess' = handleConnectionRequest(Fresh(sess), s, rawPath)
       /\ ev' = [kind |-> IF matchPath(rawPath) = NoMatch THEN "rejected" ELSE "connection",
                 socket |-> s, link |-> 0, frame |-> NoFrame, path |-> rawPath]
  /\ UNCHANGED <<regCount, RegUnused>>

\* The 'message' event of client socket s.
RegClientMessage(s, data) ==
  /\ sess[s].arrived
  /\ sess[s].readyState # "CLOSED"
  /\ regCount.frames < MaxRegistryFrames
  /\ sess' = [Fresh(sess) EXCEPT ![s] = onClientMessage(Fresh(sess)[s], data)]
  /\ ev' = [kind |-> "clientMessage", socket |-> s, link |-> 0, frame |-> data]
  /\ regCount' = [regCount EXCEPT !.frames = @ + 1]
  /\ UNCHANGED RegUnused

\* The 'close' event of client socket s.
RegClientClose(s) ==
  /\ sess[s].arrived
  /\ sess[s].readyState # "CLOSED"
  /\ sess' = [Fresh(sess) EXCEPT ![s] =
                onClientClose([Fresh(sess)[s] EXCEPT !.readyState = "CLOSED"])]
  /\ ev' = [kind |-> "clientClose", socket |-> s, link |-> 0, frame |-> NoFrame]
  /\ UNCHANGED <<regCount, RegUnused>>

\* The 'open' event of the socket of link u of the session of socket s.
RegSocketOpen(s, u) ==
  /\ sess[s].up[u].sock = "connecting"
  /\ sess' = [Fresh(sess) EXCEPT ![s] = onOpen(Fresh(sess)[s], u)]
  /\ ev' = [kind |-> "open", socket |-> s, link |-> u, frame |-> NoFrame]
  /\ UNCHANGED <<regCount, RegUnused>>

\* The 'close' event of the socket of link u of the session of socket s.
RegSocketClose(s, u) ==
  /\ sess[s].up[u].sock \in {"connecting", "open", "closing", "aborted"}
  /\ sess[s].up[u].closed \/ regCount.closes < MaxRegistryCloses
  /\ sess' = [Fresh(sess) EXCEPT ![s] = onClose(Fresh(sess)[s], u)]
  /\ ev' = [kind |-> "close", socket |-> s, link |-> u, frame |-> NoFrame]
  /\ regCount' = IF sess[s].up[u].closed THEN regCount
                 ELSE [regCount EXCEPT !.closes = @ + 1]
  /\ UNCHANGED RegUnused

\* The 'message' event of the socket of link u of the session of socket s.
RegUpstreamMessage(s, u, data) ==
  /\ sess[s].up[u].sock \in {"open", "closing"}
  /\ regCount.frames < MaxRegistryFrames
  /\ sess' = [Fresh(sess) EXCEPT ![s] =
                handleUpstreamMessage(Fresh(sess)[s], data, upstreamName(u))]
  /\ ev' = [kind |-> "upstreamMessage", socket |-> s, link |-> u, frame |-> data]
  /\ regCount' = [regCount EXCEPT !.frames = @ + 1]
  /\ UNCHANGED RegUnused

\* The reconnect timer of link u of the session of socket s fires.
RegReconnectTimer(s, u) ==
  /\ sess[s].up[u].timers > 0
  /\ sess' = [Fresh(sess) EXCEPT ![s] = onTimer(Fresh(sess)[s], u)]
  /\ ev' = [kind |-> "timer", socket |-> s, link |-> u, frame |-> NoFrame]
  /\ UNCHANGED <<regCount, RegUnused>>

RegNext ==
  \/ \E rawPath \in Paths : RegConnection(rawPath)
  \/ \E s \in Sockets, data \in ClientFrames : RegClientMessage(s, data)
  \/ \E s \in Sockets : RegClientClose(s)
  \/ \E s \in Sockets, u \in Links : RegSocketOpen(s, u)
  \/ \E s \in Sockets, u \in Links : RegSocketClose(s, u)
  \/ \E s \in Sockets, u \in Links, data \in UpstreamFrames : RegUpstreamMessage(s, u, data)
  \/ \E s \in Sockets, u \in Links : RegReconnectTimer(s, u)

SpecRegistry == RegInit /\ [][RegNext]_vars

(* --------------------------- link specification ----------------------- *)
(* UpstreamConnection on its own: the links of a session driven by their   *)
(* socket events, their timers, close() and direct calls of send() and of  *)
(* scheduleReconnect().                                                    *)

\* send(data) is called on link u.
Send(u, data, wsSendThrows) ==
  /\ LET R == sendResult(Cur, u, data, wsSendThrows) IN
     /\ Commit(R.state)
     /\ ev' = [kind |-> "send", link |-> u, frame |-> data,
               throws |-> wsSendThrows, returned |-> R.returned]
  /\ UNCHANGED histVars
  /\ UNCHANGED regVars

\* scheduleReconnect() is called on link u, which has no socket that is
\* open or being opened.
ScheduleReconnect(u) ==
  /\ up[u].sock \notin {"connecting", "open"}
  /\ Commit(scheduleReconnect(Cur, u))
  /\ ev' = [kind |-> "scheduleReconnect", link |-> u, frame |-> NoFrame]
  /\ UNCHANGED histVars
  /\ UNCHANGED regVars

LinkNext ==
  \/ ClientClose
  \/ \E u \in Links : ScheduleReconnect(u)
  \/ \E u \in Links : SocketOpen(u)
  \/ \E u \in Links : SocketClose(u)
  \/ \E u \in Links : ReconnectTimer(u)
  \/ \E u \in Links, data \in OcppFrames, wsSendThrows \in BOOLEAN :
       Send(u, data, wsSendThrows)

SpecLink == Init /\ [][LinkNext]_vars

(* -------------------------- buffer specification ---------------------- *)
(* The single session of Spec with up to MaxBufferedFrames client frames   *)
(* and silent upstream servers: the client's frames are buffered while no  *)
(* link is connected and drained when a link connects.                     *)

\* The client's frames, with a second CALL text for each message id: the
\* same [2, id, ...] with another action.
BufferFrames ==
  ClientFrames \cup {[text |-> "array", type |-> 2, id |-> i, action |-> "other"] : i \in Ids}

BufferNext ==
  \/ \E data \in BufferFrames : ClientMessageUpTo(data, MaxBufferedFrames)
  \/ ClientClose
  \/ \E u \in Links : SocketOpen(u)
  \/ \E u \in Links : SocketClose(u)
  \/ \E u \in Links : ReconnectTimer(u)

SpecBuffer == Init /\ [][BufferNext]_vars

(* ------------------- unreachable-upstream specification --------------- *)
(* The single session of Spec with upstream servers that fail every        *)
(* connection attempt: no socket opens, the client stays connected and     *)
(* may send frames.  A socket that is being opened gets its 'close' event  *)
(* and a timer that is set fires.                                          *)

RefuseNext ==
  \/ \E data \in ClientFrames : ClientMessage(data)
  \/ \E u \in Links : SocketClose(u)
  \/ \E u \in Links : ReconnectTimer(u)

SpecRefuse ==
  /\ Init /\ [][RefuseNext]_vars
  /\ \A u \in Links : WF_vars(SocketClose(u)) /\ WF_vars(ReconnectTimer(u))

(* ----------------------- any-frame specification ---------------------- *)
(* The single session of Spec, with the client and the upstream servers   *)
(* sending any text frame, not only OCPP messages.                        *)

AnyNext ==
  \/ \E data \in AnyFrames : ClientMessage(data)
  \/ ClientClose
  \/ \E u \in Links : SocketOpen(u)
  \/ \E u \in Links : SocketClose(u)
  \/ \E u \in Links, data \in AnyFrames : UpstreamMessage(u, data)
  \/ \E u \in Links : ReconnectTimer(u)

SpecAnyFrames == Init /\ [][AnyNext]_vars

(* -------------------------------- properties --------------------------- *)

UnavailableReason == "1001 All upstream servers unavailable"

\* C1: a CALLRESULT/CALLERROR from a secondary upstream whose id is the id
\* of a CALL frame the client has sent in the session (routed at once or
\* held in the pre-connect buffer) is never written to the client socket.
C1_SecondaryReplyNeverRelayed ==
  (/\ ev.kind = "upstreamMessage"
   /\ ev.link # Primary
   /\ IsReplyFrame(ev.frame)
   /\ FrameId(ev.frame) \in sentCalls)
  => out.toClient = <<>>

\* C2: as long as no upstream sends two replies with one id, the client
\* socket receives at most one CALLRESULT/CALLERROR for each CALL id the
\* client sent.
C2_AtMostOneReplyPerCall ==
  ~dupReply => \A i \in Ids : repliesToClient[i] <= 1

\* C3: a CALLRESULT/CALLERROR with id i received from a link while the
\* client socket is open is written to the client if and only if i is not
\* in clientCallIds or the link is the primary.
C3_RelayIffUnknownOrPrimary ==
  (/\ ev.kind = "upstreamMessage"
   /\ IsReplyFrame(ev.frame)
   /\ readyState = "OPEN")
  => /\ out.toClient \in {<<>>, <<ev.frame>>}
     /\ (out.toClient = <<ev.frame>>)
          <=> (FrameId(ev.frame) \notin clientCallIds \/ ev.link = Primary)

\* C3 witness: a secondary's reply to a registered client CALL was dropped
\* while the client socket was open.
C3_Witness ==
  /\ ev.kind = "upstreamMessage"
  /\ IsReplyFrame(ev.frame)
  /\ ev.link # Primary
  /\ FrameId(ev.frame) \in clientCallIds
  /\ readyState = "OPEN"
  /\ out.toClient = <<>>

\* C4: when a client CALL frame is routed with at least one link connected
\* (on arrival, or from the pre-connect buffer when the primary connects),
\* the identical frame is written to every link connected at that moment
\* and to no link that is not connected.
C4_CallWrittenToConnectedLinks ==
  [][/\ (/\ ev'.kind = "clientMessage"
         /\ IsCallFrame(ev'.frame)
         /\ \E u \in Links : up[u].isConnected)
        => \A u \in Links :
             out'.toUp[u] = IF up[u].isConnected THEN <<ev'.frame>> ELSE <<>>
     /\ (ev'.kind = "open" /\ ev'.link = Primary /\ inMap)
        => \A u \in Links :
             SelectSeq(out'.toUp[u], IsCallFrame) =
               IF up'[u].isConnected THEN SelectSeq(messageBuffer, IsCallFrame) ELSE <<>>
    ]_vars

\* C4 witness: a client CALL was routed while the primary was connected and
\* the secondary was not, and was written to the primary only.
C4_Witness ==
  /\ ev.kind = "clientMessage"
  /\ IsCallFrame(ev.frame)
  /\ up[Primary].isConnected
  /\ \E u \in Links : ~up[u].isConnected
  /\ out.toUp[Primary] = <<ev.frame>>

C6_ClientReplyOnlyToCaller ==
  [][\A u \in Links : \A k \in 1..Len(out'.toUp[u]) :
       LET f == out'.toUp[u][k] IN
       (/\ IsReplyFrame(f)
        /\ FrameId(f) \in clientAnswered'
        /\ messageIdToServer[FrameId(f)] # NoServer) =>
         /\ messageIdToServer[FrameId(f)] = upstreamName(u)
         /\ messageIdToServer'[FrameId(f)] = NoServer
    ]_vars

\* The pre-connect buffer of the live session is cleared by this step.
BufferCleared == inMap /\ messageBuffer # <<>> /\ messageBuffer' = <<>>

\* C7: every frame placed in the pre-connect buffer has been written at
\* least once to the primary and at least once to each secondary when the
\* buffer is cleared.
C7_BufferDeliveredToEveryLink ==
  [][BufferCleared =>
       \A u \in Links : Range(messageBuffer) \subseteq sentFromBuffer'[u]]_vars

\* C7 as amended: when the buffer is cleared, every frame in it has been
\* written to each secondary that is connected at that moment, and every
\* CALL frame in it to the primary if the primary is connected at that
\* moment.
C7_BufferDeliveredToConnectedLinks ==
  [][BufferCleared =>
       \A u \in Links : up'[u].isConnected =>
         \A f \in Range(messageBuffer) :
           (u # Primary \/ IsCallFrame(f)) => f \in sentFromBuffer'[u]]_vars

\* C7 witness: the buffer of a live session was cleared when the last link
\* connected, after its frames were written to both links.
C7_Witness ==
  /\ inMap
  /\ ev.kind = "open"
  /\ messageBuffer = <<>>
  /\ \A u \in Links : up[u].isConnected /\ sentFromBuffer[u] # {}

\* A link that will make no further connection attempt: its attempts are
\* used up and none is pending or in progress.
LinkExhausted(L) ==
  /\ ~L.isConnected
  /\ L.reconnectAttempts >= maxReconnectAttempts
  /\ ~L.reconnectTimer
  /\ L.sock # "connecting"

LinkResolved(L) == L.isConnected \/ LinkExhausted(L)

\* C8: the pre-connect buffer of a live session is cleared only when every
\* link is connected or has exhausted its reconnection attempts (never
\* while a disconnected link has an attempt remaining), and it does not
\* stay non-empty once every link is connected or exhausted.
C8_BufferClearedIffAllResolved ==
  [][/\ (BufferCleared /\ inMap') => \A u \in Links : LinkResolved(up'[u])
     /\ (inMap' /\ \A u \in Links : LinkResolved(up'[u])) => messageBuffer' = <<>>]_vars

AllEverConnected == \A u \in Links : up[u].wasEverConnected

\* C9: with both upstreams connected before and then both closed, the
\* client socket is closed with 1001 and the session destroyed only after
\* both links have reached attempt 10 (upon the second give-up).
C9_DestroyedOnlyAfterGiveUps ==
  (out.clientClose = UnavailableReason /\ AllEverConnected)
  => \A u \in Links : up[u].reconnectAttempts >= maxReconnectAttempts

\* C9 as amended: with both upstreams connected before, a live session
\* survives the close of a link only while another link is still
\* connected; when the last connected link closes, the client socket is
\* closed with 1001 and the session destroyed at once, without waiting for
\* any give-up.
C9_DestroyedWhenLastLinkCloses ==
  [][(inMap /\ ev'.kind = "close" /\ AllEverConnected) =>
       IF \E u \in Links : up'[u].isConnected
         THEN inMap'
         ELSE ~inMap' /\ out'.clientClose = UnavailableReason]_vars

\* C9 witness: both links were connected, both closed, and the session was
\* destroyed with 1001 while neither link had used up its attempts.
C9_Witness ==
  /\ ~inMap
  /\ ev.kind = "close"
  /\ out.clientClose = UnavailableReason
  /\ AllEverConnected
  /\ \A u \in Links : up[u].reconnectAttempts < maxReconnectAttempts

\* C10: when a close of link ev'.link is handled on a live session, the
\* session is destroyed if and only if every link is not connected and has
\* either been connected before or has exhausted its reconnection attempts;
\* a link that has never connected and still has an attempt pending or in
\* progress keeps the session alive.
C10_DestroyedIffAllLinksDone ==
  [][(ev'.kind = "close" /\ inMap) =>
       LET l == ev'.link
           done(u) == IF u = l
                        THEN up[u].wasEverConnected
                               \/ up[u].reconnectAttempts >= maxReconnectAttempts
                        ELSE ~up[u].isConnected
                               /\ (up[u].wasEverConnected \/ LinkExhausted(up[u]))
       IN ~inMap' <=> \A u \in Links : done(u)]_vars

\* C11: for every client id, the session registry holds at most one session
\* with that client id.
C11_OneSessionPerClientId ==
  \A s, t \in Sockets :
    (sess[s].inMap /\ sess[t].inMap /\ sess[s].clientId = sess[t].clientId) => s = t

\* C11 witness: a connection has replaced a registered session of the same
\* client id, which is out of the registry now.
C11_Witness ==
  /\ ev.kind = "connection"
  /\ \E r \in Sockets :
       /\ r # ev.socket
       /\ sess[r].arrived /\ ~sess[r].inMap
       /\ sess[r].clientId = sess[ev.socket].clientId
       /\ sess[r].out.clientClose = ReplacedReason
  /\ sess[ev.socket].inMap

\* The router tables of a session are empty.
RouterEmpty(P) ==
  P.clientCallIds = {} /\ \A i \in Ids : P.messageIdToServer[i] = NoServer

\* C12: when a connection arrives for a client id that has a session, the
\* old session's client socket is closed with 1001 'Replaced by a new
\* connection', every link of the old session is closed, its router is
\* cleared, and the new session starts with empty router tables, an empty
\* buffer and fresh links; a closed link never has a timer or a connect in
\* progress again.
C12_ReplacementTearsDownOld ==
  [][/\ ev'.kind = "connection" =>
          LET s == ev'.socket IN
          /\ sess'[s].inMap
          /\ RouterEmpty(sess'[s])
          /\ sess'[s].messageBuffer = <<>>
          /\ \A u \in Links : sess'[s].up[u] = NewLink
          /\ \A r \in Sockets \ {s} :
               (sess[r].inMap /\ sess[r].clientId = sess'[s].clientId) =>
                 /\ ~sess'[r].inMap
                 /\ sess'[r].out.clientClose = ReplacedReason
                 /\ sess'[r].readyState # "OPEN"
                 /\ RouterEmpty(sess'[r])
                 /\ \A u \in Links :
                      /\ sess'[r].up[u].closed
                      /\ ~sess'[r].up[u].isConnected
                      /\ ~sess'[r].up[u].reconnectTimer
                      /\ sess'[r].up[u].sock \notin {"connecting", "open"}
     /\ \A r \in Sockets, u \in Links :
          sess[r].up[u].closed =>
            /\ sess'[r].up[u].closed
            /\ ~sess'[r].up[u].isConnected
            /\ ~sess'[r].up[u].reconnectTimer
            /\ sess'[r].up[u].sock \notin {"connecting", "open"}]_vars

\* C12 witness: the session being replaced had its primary connected and
\* its secondary waiting for a reconnect timer.
C12_Witness ==
  /\ ev.kind = "connection"
  /\ \E r \in Sockets \ {ev.socket} :
       /\ sess[r].out.clientClose = ReplacedReason
       /\ sess[r].clientId = sess[ev.socket].clientId
       /\ sess[r].up[Primary].sock = "closing"
       /\ sess[r].up[2].sock = "none"
       /\ sess[r].up[2].reconnectAttempts = 1

\* The delays the back-off is stated to produce for attempts 1..10.
BackoffDelays ==
  <<5000, 10000, 20000, 40000, 60000, 60000, 60000, 60000, 60000, 60000>>

\* C13: whenever a reconnect timer is set for a link, it is for attempt
\* n = previous attempts + 1 with 1 <= n <= 10, and its delay is
\* BackoffDelays[n] = min(5000 * 2^(n-1), 60000) ms; an 11th attempt is
\* never scheduled.
C13_BackoffDelays ==
  [][\A u \in Links :
       (~up[u].reconnectTimer /\ up'[u].reconnectTimer) =>
         LET n == up'[u].reconnectAttempts IN
         /\ n = up[u].reconnectAttempts + 1
         /\ n \in 1..Len(BackoffDelays)
         /\ out'.delay = BackoffDelays[n]]_vars

\* C13 witness: the 10th attempt of a link has just been scheduled, 60000 ms
\* ahead.
C13_Witness ==
  /\ ev.kind = "close"
  /\ up[ev.link].reconnectTimer
  /\ up[ev.link].reconnectAttempts = maxReconnectAttempts
  /\ out.delay = 60000

\* C14: once close() has been called on a link, every later step leaves it
\* closed with no socket being connected and no reconnect timer pending:
\* connect is never attempted on it again.
C14_NoConnectAfterClose ==
  [][\A u \in Links :
       up[u].closed =>
         /\ up'[u].closed
         /\ up'[u].ws = "null"
         /\ up'[u].sock # "connecting"
         /\ ~up'[u].reconnectTimer]_vars

\* C14 witness: the old socket of a closed link, which had a reconnect
\* attempt behind it, has delivered its close event and nothing was scheduled.
C14_Witness ==
  /\ ev.kind = "close"
  /\ up[ev.link].closed
  /\ up[ev.link].sock = "none"
  /\ up[ev.link].reconnectAttempts > 0
  /\ ~up[ev.link].reconnectTimer

\* C15: a closed link holds no socket, has no socket open or connecting,
\* has no reconnect timer pending and is not connected; a connected link
\* has been connected before.
C15_LinkInvariants ==
  \A u \in Links :
    /\ up[u].closed =>
         /\ up[u].ws = "null"
         /\ up[u].sock \notin {"connecting", "open"}
         /\ ~up[u].reconnectTimer
         /\ ~up[u].isConnected
    /\ up[u].isConnected => up[u].wasEverConnected

\* C15 witness: a link that was connected has been closed, and a link that
\* was waiting for its reconnect timer has been closed.
C15_Witness ==
  /\ \E u \in Links : up[u].closed /\ up[u].sock = "closing"
  /\ \E u \in Links : up[u].closed /\ up[u].sock = "none" /\ up[u].reconnectAttempts > 0

\* The number of times onGaveUpCallback was invoked for link u in a step.
GaveUps(o, u) ==
  Len(SelectSeq(o.notes, LAMBDA n : n.hook = "gaveUp" /\ n.arg = upstreamName(u)))

\* The socket of link u, which is not closed and has used up its
\* reconnection attempts, fails in this step.
FailsExhausted(u) ==
  /\ ev'.kind = "close"
  /\ ev'.link = u
  /\ ~up[u].closed
  /\ up[u].reconnectAttempts >= maxReconnectAttempts

AcceptedShape(data) ==
  data.text = "array" /\ data.type \in {2, 3, 4} /\ data.id \in Ids

\* C17: parseMessage returns a message exactly for the frames of the
\* accepted shape, with their type and id unchanged, and no message for
\* every other frame.
C17_ParseAcceptsExactlyOcpp ==
  ev.kind \in {"clientMessage", "upstreamMessage"} =>
    LET message == parseMessage(ev.frame) IN
    IF AcceptedShape(ev.frame)
      THEN ~message.null /\ message.type = ev.frame.type /\ message.messageId = ev.frame.id
      ELSE message.null

\* The frames a step wrote to any socket.
Written(o) == Range(o.toClient) \cup UNION {Range(o.toUp[u]) : u \in Links}

\* C18: a frame that fails parsing is discarded: when it is received,
\* nothing is written to any upstream or to the client, the router tables
\* are unchanged and the session continues; and no step ever writes a frame
\* that fails parsing to any socket.
C18_UnparsableFrameDiscarded ==
  [][/\ (ev'.kind \in {"clientMessage", "upstreamMessage"} /\ parseMessage(ev'.frame).null) =>
          /\ Written(out') = {}
          /\ clientCallIds' = clientCallIds
          /\ messageIdToServer' = messageIdToServer
          /\ inMap' = inMap
     /\ \A f \in Written(out') : ~parseMessage(f).null]_vars

\* A client frame the router has no route for when it is received: a
\* CALLRESULT/CALLERROR whose id has no entry in messageIdToServer, or a
\* message whose type is none of 2, 3, 4.
Unroutable(data) ==
  /\ ~parseMessage(data).null
  /\ \/ parseMessage(data).type \notin {2, 3, 4}
     \/ /\ parseMessage(data).type \in {3, 4}
        /\ messageIdToServer[parseMessage(data).messageId] = NoServer

\* C19: a client frame of type 3 or 4 whose id has no entry in
\* messageIdToServer, and a client frame whose type is not 2, 3 or 4, is
\* written to no upstream when it is received and leaves clientCallIds and
\* messageIdToServer unchanged; a frame whose type is not 2, 3 or 4 is
\* never written to an upstream by any step.
C19_UnroutableClientFrameDropped ==
  [][/\ (ev'.kind = "clientMessage" /\ Unroutable(ev'.frame)) =>
          /\ \A u \in Links : out'.toUp[u] = <<>>
          /\ clientCallIds' = clientCallIds
          /\ messageIdToServer' = messageIdToServer
     /\ \A u \in Links : \A f \in Range(out'.toUp[u]) :
          ~parseMessage(f).null => parseMessage(f).type \in {2, 3, 4}]_vars

\* C20: handling a client frame or an upstream frame never raises an
\* uncaught error, whether or not the session is still in the registry.
C20_FrameHandlingNeverThrows ==
  ev.kind \in {"clientMessage", "upstreamMessage"} => ~out.threw

\* The paths stated to be accepted: leading "/" characters followed by
\* exactly one non-empty run of the characters [A-Za-z0-9_-].
OneSegmentPath(path) ==
  \E k \in 1..Len(path) :
    /\ \A j \in 1..k : path[j] = "/"
    /\ Len(path) = k + 1
    /\ path[k + 1] \in ClientIds

\* The sessions without the outputs of the last step.
Sessions(S) == [t \in Sockets |-> [S[t] EXCEPT !.out = NoOut]]

C22_FailedSendReturnsFalse ==
  [][ev'.kind = "send" =>
       /\ ~out'.threw
       /\ <<up', messageBuffer', clientCallIds', messageIdToServer',
            inMap', readyState'>> =
          <<up, messageBuffer, clientCallIds, messageIdToServer, inMap, readyState>>
       /\ out'.toClient = <<>> /\ out'.notes = <<>>
       /\ \A v \in Links : v # ev'.link => out'.toUp[v] = <<>>
       /\ IF ~up[ev'.link].isConnected \/ ev'.throws
            THEN ev'.returned = FALSE /\ out'.toUp[ev'.link] = <<>>
            ELSE ev'.returned = TRUE /\ out'.toUp[ev'.link] = <<ev'.frame>>]_vars

\* C22 witness: send returned false on a link that lost its connection and
\* waits for its reconnect timer.
C22_Witness ==
  /\ ev.kind = "send"
  /\ ~up[ev.link].isConnected /\ up[ev.link].wasEverConnected
  /\ up[ev.link].reconnectTimer
  /\ ~ev.throws /\ ev.returned = FALSE
  /\ out.toUp[ev.link] = <<>>

\* A link after close(): flagged closed, not connected, without a socket
\* object and a timer, its socket neither open nor being opened.
LinkShut(L) ==
  /\ L.closed /\ ~L.isConnected /\ L.ws = "null" /\ ~L.reconnectTimer
  /\ L.sock \notin {"connecting", "open"}

\* C23: when a client socket closes, its session is destroyed in that step:
\* every link is closed, both router tables are empty, the session is out of
\* the registry and disconnectedFromProxy is called with its client id.  The
\* links of a closed client socket stay closed: none connects again.
C23_ClientCloseDestroysSession ==
  [][/\ ev'.kind = "clientClose" =>
          LET N == sess'[ev'.socket] IN
          /\ ~N.inMap
          /\ RouterEmpty(N)
          /\ \A u \in Links : LinkShut(N.up[u])
          /\ \E k \in 1..Len(N.out.notes) :
               N.out.notes[k] = [hook |-> "disconnectedFromProxy",
                                 arg |-> sess[ev'.socket].clientId]
     /\ \A s \in Sockets :
          sess'[s].readyState = "CLOSED" => \A u \in Links : LinkShut(sess'[s].up[u])]_vars

\* The CALL frames of a sequence of frames, in their order.
Calls(frames) == SelectSeq(frames, IsCallFrame)

\* C24: a client frame received while no link is connected is appended to
\* the end of the buffer and nothing else happens: the router tables and the
\* links stay as they were, nothing is written and nothing is thrown.  When
\* a link of the session connects, the buffered CALL frames are written to
\* it in the order they arrived.
C24_FrameBufferedWhileNoLink ==
  [][/\ (ev'.kind = "clientMessage" /\ ~(\E u \in Links : up[u].isConnected)) =>
          /\ messageBuffer' = Append(messageBuffer, ev'.frame)
          /\ <<up', clientCallIds', messageIdToServer', inMap', readyState'>> =
             <<up, clientCallIds, messageIdToServer, inMap, readyState>>
          /\ out' = NoOut
     /\ (ev'.kind = "open" /\ inMap) =>
          Calls(out'.toUp[ev'.link]) = Calls(messageBuffer)]_vars

\* The message ids of the CALL frames of a sequence of frames.
CallIds(frames) == {FrameId(f) : f \in Range(Calls(frames))}

\* C25: a link of a registered session connects while the buffer is not
\* empty.  The primary: the buffered frames go through the routing of client
\* frames in their order, so the ids of the buffered CALLs are in
\* client_calls and the CALLs are written, in order, to every link that is
\* connected at that moment and to no other (a buffered reply has no
\* destination: the upstream servers sent no CALL).  A secondary: the
\* buffered frames are written as they are, in order, to that link only, and
\* the router tables do not change.
C25_BufferDrainedOnConnect ==
  [][(ev'.kind = "open" /\ inMap /\ messageBuffer # <<>>) =>
       IF ev'.link = Primary
         THEN /\ clientCallIds' = clientCallIds \cup CallIds(messageBuffer)
              /\ \A v \in Links :
                   out'.toUp[v] = IF v = Primary \/ up[v].isConnected
                                    THEN Calls(messageBuffer) ELSE <<>>
         ELSE /\ out'.toUp[ev'.link] = messageBuffer
              /\ \A v \in Links : v # ev'.link => out'.toUp[v] = <<>>
              /\ clientCallIds' = clientCallIds
              /\ messageIdToServer' = messageIdToServer]_vars

\* C25 witness: the primary connected after the secondary, with two
\* different CALL frames in the buffer, and both links got both frames.
C25_Witness ==
  /\ ev.kind = "open" /\ ev.link = Primary
  /\ Len(out.toUp[Primary]) = 2
  /\ out.toUp[Primary][1] # out.toUp[Primary][2]
  /\ out.toUp[2] = out.toUp[Primary]
  /\ clientCallIds # {}

C27_NotifiedBeforeWritten ==
  [][LET t == out'.trace IN
     \A k \in 1..Len(t) :
       (t[k].op = "send" /\ IsCallFrame(t[k].frame)) =>
         \/ t[k].frame \in calledFromClient
         \/ \E j \in 1..(k - 1) : t[j] = [op |-> "callFromClient", arg |-> t[k].frame]]_vars

\* The number of times the disconnected callback of link u ran in a step
\* with outputs o (each run ends with notifier.disconnectedFromUpstream).
Disconnecteds(o, u) ==
  Len(SelectSeq(o.notes, LAMBDA n : n.hook = "disconnectedFromUpstream" /\
                                    n.arg = upstreamName(u)))

\* C28: the disconnected callback of a link runs only when a socket that
\* had been open closes; a socket that closes before it opened only gets a
\* reconnect scheduled.
C28_DisconnectedOnlyAfterOpen ==
  [][ev'.kind = "close" =>
       (Disconnecteds(out', ev'.link) > 0 => up[ev'.link].sock \in {"open", "closing"})]_vars

\* C29: a link has at most one reconnect timer pending, the one its
\* reconnectTimer field holds; scheduleReconnect called while that timer is
\* pending changes nothing: no attempt is counted, no timer is set, nothing
\* is emitted.
C29_OnePendingTimer ==
  [][/\ \A u \in Links :
          /\ up'[u].timers <= 1
          /\ up'[u].reconnectTimer <=> (up'[u].timers = 1)
     /\ (ev'.kind = "scheduleReconnect" /\ up[ev'.link].reconnectTimer) =>
          /\ up' = up
          /\ <<clientCallIds', messageIdToServer', messageBuffer', inMap', readyState'>> =
             <<clientCallIds, messageIdToServer, messageBuffer, inMap, readyState>>
          /\ out' = NoOut]_vars

\* C29 witness: scheduleReconnect was called on a link that waits for its
\* third attempt, and the link still has that one timer and three attempts
\* counted.
C29_Witness ==
  /\ ev.kind = "scheduleReconnect"
  /\ ~up[ev.link].closed
  /\ up[ev.link].reconnectTimer /\ up[ev.link].timers = 1
  /\ up[ev.link].reconnectAttempts = 3
  /\ out = NoOut

RepliesWithId(frames, i) ==
  SelectSeq(frames, LAMBDA f : IsReplyFrame(f) /\ FrameId(f) = i)

C32_UpstreamCallRecordedAndRelayed ==
  [][(ev'.kind = "upstreamMessage" /\ IsCallFrame(ev'.frame)) =>
       /\ messageIdToServer' =
            [messageIdToServer EXCEPT ![FrameId(ev'.frame)] = upstreamName(ev'.link)]
       /\ out'.toClient = IF readyState = "OPEN" THEN <<ev'.frame>> ELSE <<>>
       /\ \A u \in Links : out'.toUp[u] = <<>>
       /\ clientCallIds' = clientCallIds]_vars

\* C32 witness: the secondary sent a CALL whose id is the id of a CALL of
\* the client, and it was relayed to the client.
C32_Witness ==
  /\ ev.kind = "upstreamMessage" /\ IsCallFrame(ev.frame) /\ ev.link # Primary
  /\ FrameId(ev.frame) \in clientCallIds
  /\ out.toClient = <<ev.frame>>
  /\ messageIdToServer[FrameId(ev.frame)] = upstreamName(ev.link)

\* C33: a client frame received while a link is connected is routed and
\* not put in the buffer, and in that step nothing is written to a link that
\* is not connected.  In every step the frames written to a link are the
\* client frame of that step or, when a link opens, frames of the buffer:
\* so a routed frame is not written again when a link connects later.
C33_RoutedFrameNotReplayed ==
  [][/\ (ev'.kind = "clientMessage" /\ (\E u \in Links : up[u].isConnected)) =>
          /\ messageBuffer' = messageBuffer
          /\ \A u \in Links : ~up[u].isConnected => out'.toUp[u] = <<>>
     /\ \A u \in Links :
          Range(out'.toUp[u]) \subseteq
            (CASE ev'.kind = "clientMessage" -> {ev'.frame}
               [] ev'.kind = "open" -> Range(messageBuffer)
               [] OTHER -> {})]_vars

\* C33 witness: a client CALL was routed to the primary while the secondary
\* waits for a reconnect; the buffer is empty.
C33_Witness ==
  /\ ev.kind = "clientMessage" /\ IsCallFrame(ev.frame)
  /\ out.toUp[Primary] = <<ev.frame>>
  /\ ~up[2].isConnected /\ up[2].reconnectTimer /\ out.toUp[2] = <<>>
  /\ messageBuffer = <<>>

\* C34: a frame of the buffer is written at most once to each link: when a
\* link opens, no link is written a frame it was already written from the
\* buffer since the buffer was last filled.
C34_BufferedFrameOncePerLink ==
  [][ev'.kind = "open" =>
       \A u \in Links : Range(out'.toUp[u]) \cap sentFromBuffer[u] = {}]_vars

\* C35: the session is not closed with 1001 'All upstream servers
\* unavailable' while a link that has never been connected has a reconnect
\* timer pending or a connect in progress.
C35_AliveWhileFirstConnectPending ==
  [][out'.clientClose = UnavailableReason =>
       \A u \in Links \ {ev'.link} :
         ~(/\ ~up[u].wasEverConnected /\ ~up[u].closed
           /\ (up[u].reconnectTimer \/ up[u].sock = "connecting"))]_vars

\* C36: a link of a registered session that opens for the first time is
\* written every CALL frame that has been put in the buffer before.
C36_FirstOpenGetsBufferedCalls ==
  [][(ev'.kind = "open" /\ ~up[ev'.link].wasEverConnected /\ inMap) =>
       \A f \in buffered : IsCallFrame(f) => f \in Range(out'.toUp[ev'.link])]_vars

\* C37: once the session is destroyed, a frame that still arrives from the
\* client socket or from a link is written to no upstream and not to the
\* client, and the router tables stay empty.
C37_DestroyedSessionInert ==
  [][(~inMap /\ ev'.kind \in {"clientMessage", "upstreamMessage"}) =>
       /\ out'.toClient = <<>>
       /\ \A u \in Links : out'.toUp[u] = <<>>
       /\ clientCallIds' = {}
       /\ \A i \in Ids : messageIdToServer'[i] = NoServer]_vars

\* The message ids of a set of frames.
IdsOf(frames) == {FrameId(f) : f \in frames}

\* C38: a client CALL routed while the primary is not connected is written
\* to the connected secondaries only and is not kept for the primary: it is
\* not put in the buffer, and whatever a link is written when it opens comes
\* from the buffer.  Every reply of a secondary with the id of such a CALL
\* is dropped, so no reply reaches the client from the upstreams that got
\* the CALL.
C38_CallWithoutPrimaryIsNeverAnswered ==
  [][/\ (/\ ev'.kind = "clientMessage" /\ IsCallFrame(ev'.frame)
         /\ ~up[Primary].isConnected /\ (\E u \in Links : up[u].isConnected)) =>
          /\ ev'.frame \in starved'
          /\ out'.toUp[Primary] = <<>>
          /\ \A u \in Links : up[u].isConnected => out'.toUp[u] = <<ev'.frame>>
          /\ messageBuffer' = messageBuffer
     /\ ev'.kind = "open" => Range(out'.toUp[Primary]) \subseteq Range(messageBuffer)
     /\ ev'.kind \notin {"open", "clientMessage"} => out'.toUp[Primary] = <<>>
     /\ (/\ ev'.kind = "upstreamMessage" /\ ev'.link # Primary
         /\ IsReplyFrame(ev'.frame) /\ FrameId(ev'.frame) \in IdsOf(starved)) =>
          out'.toClient = <<>>]_vars

\* C38 witness: the session is alive with the primary out of attempts, a
\* client CALL was routed to the secondary only, and the secondary's reply
\* to it was dropped.
C38_Witness ==
  /\ ev.kind = "upstreamMessage" /\ ev.link # Primary /\ IsReplyFrame(ev.frame)
  /\ FrameId(ev.frame) \in IdsOf(starved)
  /\ inMap /\ readyState = "OPEN"
  /\ ~up[Primary].isConnected /\ ~up[Primary].reconnectTimer
  /\ up[Primary].reconnectAttempts = maxReconnectAttempts
  /\ out.toClient = <<>>

\* C39: if every connection attempt of every upstream fails and the client
\* stays connected, then, timers and socket events being handled, the
\* client socket is eventually closed with 1001 'All upstream servers
\* unavailable' and the session is out of the registry.
C39_EventuallyClosedWhenUnreachable ==
  <>(~inMap /\ out.clientClose = UnavailableReason)

\* C39 witness: the session was destroyed with 1001 when no link had ever
\* been connected and each had used up its attempts.
C39_Witness ==
  /\ ~inMap /\ out.clientClose = UnavailableReason
  /\ readyState = "CLOSING"
  /\ \A u \in Links :
       ~up[u].wasEverConnected /\ up[u].reconnectAttempts = maxReconnectAttempts

\* C40: a link that has not been closed is connected, or has a connect in
\* progress on a live socket, or has a reconnect timer pending, or has used
\* up its reconnection attempts; it is never idle with attempts left.
C40_LinkNeverIdle ==
  \A u \in Links :
    ~up[u].closed =>
      \/ up[u].isConnected
      \/ up[u].ws # "null" /\ up[u].sock = "connecting"
      \/ up[u].reconnectTimer /\ up[u].timers = 1
      \/ up[u].reconnectAttempts >= maxReconnectAttempts

\* C40 witness: in a live session one link is connected, and the other,
\* not closed, lost its connection and waits for its second attempt.
C40_Witness ==
  /\ inMap
  /\ up[Primary].isConnected
  /\ ~up[2].closed /\ ~up[2].isConnected /\ up[2].wasEverConnected
  /\ up[2].sock = "none" /\ up[2].reconnectTimer /\ up[2].reconnectAttempts = 2

====
